---- MODULE Spec2Model ----
(***************************************************************************)
(* DictionaryReader (src/src/Interpreters/DictionaryReader.h).             *)
(*                                                                         *)
(* The constructor binds dictHas and one dictGet per result column over a  *)
(* sample block; readKeys runs them over a per-call copy of that block.    *)
(* Block positions are 0-based as in the source; a Block is a sequence of *)
(* columns, so position p is element p + 1.                                *)
(***************************************************************************)
EXTENDS Integers, Sequences, FiniteSets, TLC

VARIABLES
    dict,               \* the external dictionary: the set of keys it holds
    resolver_types,     \* return type the overload resolver gave per argument list
    nthreads,           \* how many threads call readKeys on the shared reader
    ctor_pc,            \* position inside the constructor
    src_column_names,   \* constructor argument
    result_columns,     \* constructor argument (NamesAndTypesList)
    result_header,      \* member
    sample_block,       \* member
    key_position,       \* member
    function_has,       \* member (unique_ptr: empty sequence = not set)
    functions_get,      \* member
    ctor_error,         \* exception thrown by the constructor, if any
    resolvers,          \* the functions FunctionFactory::get was asked for, in order
    resolve_log,        \* the resolver.build calls so far: function, column, return type
    pc,                 \* per thread: position inside readKeys
    call_keys,          \* per thread: the keys argument
    call_size,          \* per thread: the size argument
    call_prior,         \* per thread: found/positions as the caller passed them
    working_block,      \* per thread: local working_block
    stray,              \* per thread: memory past the end of working_block's vector
    found,              \* per thread: the caller's found vector
    positions,          \* per thread: the caller's positions vector
    out_block,          \* per thread: the caller's out_block
    rows,               \* per thread: local rows
    get_index,          \* per thread: progress of the loop over functions_get
    call_log            \* per thread: executions of the bound functions, in order

ctor_vars == <<ctor_pc, src_column_names, result_columns, result_header, sample_block,
               key_position, function_has, functions_get, ctor_error, resolvers,
               resolve_log, resolver_types>>
call_vars == <<pc, call_keys, call_size, call_prior, working_block, stray, found,
               positions, out_block, rows, get_index, call_log>>
vars == <<dict, nthreads, ctor_vars, call_vars>>

----------------------------------------------------------------------------
(* Bounds of the model *)

MaxAttrs == 2
MaxRows == 3
ConcMaxAttrs == 1
ConcMaxRows == 1

Threads == {1, 2}
KeyVals == {1, 2}
AttrNames == {"a", "b"}

----------------------------------------------------------------------------
(* Data types (IDataType): a type index, a parameter (scale of a decimal), *)
(* and whether it is wrapped in Nullable.                                  *)

Type(id, param, nullable) == [id |-> id, param |-> param, nullable |-> nullable]
DataTypeUInt8 == Type("UInt8", 0, FALSE)
DataTypeUInt64 == Type("UInt64", 0, FALSE)
DataTypeString == Type("String", 0, FALSE)
DataTypeDecimal32(scale) == Type("Decimal32", scale, FALSE)
Nullable(t) == [t EXCEPT !.nullable = TRUE]

\* types a resolved dictHas / dictGet may return
ReturnTypes == {DataTypeUInt8, DataTypeString, DataTypeDecimal32(1), DataTypeDecimal32(2)}

\* the (name, type) pairs a caller may request
NameAndType(name, type) == [name |-> name, type |-> type]
RequestedColumns ==
    { NameAndType("x", DataTypeString),
      NameAndType("y", Nullable(DataTypeString)),
      NameAndType("d", DataTypeDecimal32(1)),
      NameAndType("u", DataTypeUInt8) }

isNullable(t) == t.nullable
getNestedType(t) == [t EXCEPT !.nullable = FALSE]
\* IDataType::getTypeId: the TypeIndex, which does not carry the parameters
getTypeId(t) == IF t.nullable THEN "Nullable" ELSE t.id

----------------------------------------------------------------------------
(* Columns and blocks *)

\* a column pointer: null, or a column of some element kind with its rows
nullptr == [isnull |-> TRUE, of |-> "", data |-> <<>>]
Column(of, data) == [isnull |-> FALSE, of |-> of, data |-> data]
ColumnWithTypeAndName(column, type, name) == [column |-> column, type |-> type, name |-> name]

SeqsUpTo(S, n) == UNION { [1..k -> S] : k \in 0..n }

columns(block) == Len(block)
insert(block, col) == Append(block, col)
\* Block::getByPosition(p) for p < columns(): data[p]
getByPosition(block, p) == block[p + 1]
setColumn(block, p, c) == [block EXCEPT ![p + 1].column = c]

----------------------------------------------------------------------------
(* The function framework, as far as the reader uses it *)

key_size == 1
dictionary_name == "dict0"
NoError == [code |-> "none", name |-> ""]

\* what IFunctionOverloadResolver::build sees of an argument list: per argument,
\* the value of its constant column ("" when the argument carries no column)
ArgumentValues(arguments) ==
    [i \in 1..Len(arguments) |->
        IF arguments[i].column.isnull THEN "" ELSE arguments[i].column.data[1]]
ResolverKey(op, arguments) == <<op, ArgumentValues(arguments)>>

\* resolver.build(arguments)->getReturnType(): a function of the argument list,
\* fixed the first time the resolver is asked about that list
Resolve(op, arguments, return_type) ==
    LET k == ResolverKey(op, arguments) IN
    IF k \in DOMAIN resolver_types
    THEN /\ return_type = resolver_types[k]
         /\ UNCHANGED resolver_types
    ELSE /\ return_type \in ReturnTypes
         /\ resolver_types' = [q \in DOMAIN resolver_types \cup {k} |->
                                  IF q = k THEN return_type ELSE resolver_types[q]]

\* line 36, as the constructor's history keeps it
Built(op, for_column, return_type) == [op |-> op, column |-> for_column, type |-> return_type]

----------------------------------------------------------------------------
(* DictionaryReader::makeResultBlock *)

makeResultBlockReversed(names) ==
    [i \in 1..Len(names) |->
        LET nm == names[Len(names) + 1 - i] IN
        ColumnWithTypeAndName(nullptr,
                              IF isNullable(nm.type) THEN getNestedType(nm.type) ELSE nm.type,
                              nm.name)]

makeResultBlock(names) ==
    [i \in 1..Len(names) |->
        LET nm == names[i] IN
        ColumnWithTypeAndName(nullptr,
                              IF isNullable(nm.type) THEN getNestedType(nm.type) ELSE nm.type,
                              nm.name)]

----------------------------------------------------------------------------
(* DictionaryReader::FunctionWrapper::FunctionWrapper *)

TypeMismatchNeverRaised(result_type, expected_type) == FALSE

\* line 42
TypeMismatch(result_type, expected_type) == getTypeId(result_type) # expected_type

\* The wrapper the constructor makes, and the block it leaves behind. The result
\* column is described but the block is passed to prepare() as it came in.
FunctionWrapper(op, return_type, block, arg_positions_, column_name, expected_type) ==
    LET result_pos == columns(block)
        result == ColumnWithTypeAndName(nullptr, return_type, <<"get_", column_name>>)
    IN [throws |-> TypeMismatch(result.type, expected_type),
        column_name |-> column_name,
        wrapper |-> [op |-> op, return_type |-> return_type,
                     arg_positions |-> arg_positions_, result_pos |-> result_pos],
        block |-> block]

----------------------------------------------------------------------------
(* DictionaryReader::DictionaryReader *)

ColumnsNumberMismatchOneSided(src, res) == Len(src) > Len(res)

\* line 59
ColumnsNumberMismatch(src, res) == Len(src) # Len(res)

dict_name == ColumnWithTypeAndName(Column("String", <<dictionary_name>>), DataTypeString, "dict")
key == ColumnWithTypeAndName(nullptr, DataTypeUInt64, "key")
column_name == ColumnWithTypeAndName(nullptr, DataTypeString, "column")
arguments_has == <<dict_name, key>>
arguments_get == <<dict_name, column_name, key>>

\* lines 93-105: dictionary name, one constant column per source column name, key
SampleBlockBase(src) ==
    insert(<<dict_name>> \o
           [i \in 1..Len(src) |->
               ColumnWithTypeAndName(Column("String", <<src[i]>>), DataTypeString, <<"col_", src[i]>>)],
           key)

MaxAttrsNow == IF nthreads = 1 THEN MaxAttrs ELSE ConcMaxAttrs
MaxRowsNow == IF nthreads = 1 THEN MaxRows ELSE ConcMaxRows

\* the constructor threw: the members are destroyed, no object exists
CtorThrow(code, name) ==
    /\ ctor_pc' = "failed"
    /\ ctor_error' = [code |-> code, name |-> name]
    /\ result_header' = <<>>
    /\ sample_block' = <<>>
    /\ key_position' = 0
    /\ function_has' = <<>>
    /\ functions_get' = <<>>

\* lines 54-105: member initialisers, the size check, the sample block
CtorBegin ==
    /\ ctor_pc = "start"
    /\ \E src \in SeqsUpTo(AttrNames, MaxAttrsNow), res \in SeqsUpTo(RequestedColumns, MaxAttrsNow) :
        /\ src_column_names' = src
        /\ result_columns' = res
        /\ IF ColumnsNumberMismatch(src, res)
           THEN /\ CtorThrow("NUMBER_OF_COLUMNS_DOESNT_MATCH", "")
                /\ UNCHANGED <<resolvers, resolve_log>>
           ELSE /\ result_header' = makeResultBlock(res)
                /\ key_position' = key_size + columns(makeResultBlock(res))
                /\ resolvers' = <<"dictHas", "dictGet">>
                /\ UNCHANGED resolve_log
                /\ sample_block' = SampleBlockBase(src)
                /\ ctor_pc' = "has"
                /\ UNCHANGED <<function_has, functions_get, ctor_error>>
    /\ UNCHANGED <<dict, nthreads, resolver_types, call_vars>>

\* lines 107-110
CtorHas ==
    /\ ctor_pc = "has"
    /\ \E return_type \in ReturnTypes :
        /\ Resolve("dictHas", arguments_has, return_type)
        /\ resolve_log' = Append(resolve_log, Built("dictHas", "has", return_type))
        /\ LET positions_has == <<0, key_position>>
               w == FunctionWrapper("dictHas", return_type, sample_block, positions_has,
                                    "has", getTypeId(DataTypeUInt8))
           IN IF w.throws
              THEN CtorThrow("TYPE_MISMATCH", w.column_name)
              ELSE /\ function_has' = <<w.wrapper>>
                   /\ sample_block' = w.block
                   /\ ctor_pc' = "get"
                   /\ UNCHANGED <<result_header, key_position, functions_get, ctor_error>>
    /\ UNCHANGED <<dict, nthreads, src_column_names, result_columns, resolvers, call_vars>>

\* lines 112-119, one iteration; i is the number of wrappers made so far
CtorGet ==
    /\ ctor_pc = "get"
    /\ Len(functions_get) < columns(result_header)
    /\ \E return_type \in ReturnTypes :
        /\ Resolve("dictGet", arguments_get, return_type)
        /\ resolve_log' = Append(resolve_log,
               Built("dictGet", getByPosition(result_header, Len(functions_get)).name, return_type))
        /\ LET i == Len(functions_get)
               column_name_pos == key_size + i
               column == getByPosition(result_header, i)
               positions_get == <<0, column_name_pos, key_position>>
               w == FunctionWrapper("dictGet", return_type, sample_block, positions_get,
                                    column.name, getTypeId(column.type))
           IN IF w.throws
              THEN CtorThrow("TYPE_MISMATCH", w.column_name)
              ELSE /\ functions_get' = Append(functions_get, w.wrapper)
                   /\ sample_block' = w.block
                   /\ UNCHANGED <<ctor_pc, result_header, key_position, function_has, ctor_error>>
    /\ UNCHANGED <<dict, nthreads, src_column_names, result_columns, resolvers, call_vars>>

\* line 120: the loop is over, the reader exists
CtorEnd ==
    /\ ctor_pc = "get"
    /\ Len(functions_get) = columns(result_header)
    /\ ctor_pc' = "built"
    /\ UNCHANGED <<dict, nthreads, resolver_types, src_column_names, result_columns,
                   result_header, sample_block, key_position, function_has, functions_get,
                   ctor_error, resolvers, resolve_log, call_vars>>

----------------------------------------------------------------------------
(* The dictionary functions and the column operations readKeys relies on *)

\* dictGet's value for a key: the attribute's value, or its default for an absent key
DictValue(attr, k) == IF k \in dict THEN <<attr, k>> ELSE <<attr, 0>>

At(s, i, default) == IF i \in 1..Len(s) THEN s[i] ELSE default

\* dictHas('dict', key) over rows rows
dictHas(key_column, n) ==
    Column("UInt8", [i \in 1..n |-> IF At(key_column.data, i, 0) \in dict THEN 1 ELSE 0])

\* dictGet('dict', 'attr', key) over rows rows
dictGet(return_type, attr_column, key_column, n) ==
    Column(return_type.id, [i \in 1..n |-> DictValue(At(attr_column.data, 1, ""), At(key_column.data, i, 0))])

\* IColumn::cloneResized: the first size rows, padded with the default value
cloneResized(data, size) == Column("UInt64", [i \in 1..size |-> At(data, i, 0)])

\* IColumn::filter: the rows whose filter byte is not zero, in order
RECURSIVE filterData(_, _)
filterData(data, filt) ==
    IF data = <<>> THEN <<>>
    ELSE IF At(filt, 1, 0) # 0
         THEN <<Head(data)>> \o filterData(Tail(data), IF filt = <<>> THEN <<>> ELSE Tail(filt))
         ELSE filterData(Tail(data), IF filt = <<>> THEN <<>> ELSE Tail(filt))
filter(column, filt) == Column(column.of, filterData(column.data, filt))

\* Block::cloneEmpty: same names and types, empty columns
cloneEmpty(block) ==
    [i \in 1..Len(block) |-> ColumnWithTypeAndName(Column(block[i].type.id, <<>>), block[i].type, block[i].name)]

----------------------------------------------------------------------------
(* Block positions that do not exist. getByPosition(p) is data[p] without a *)
(* range check: with p >= columns() the access is outside the vector. It   *)
(* either ends the process or lands in the memory behind the vector, where *)
(* a slot holds what this call stored there, or else anything.             *)

InBounds(block, p) == p < columns(block)

JunkColumn == Column("junk", << <<"junk", 0>> >>)
Garbage == {nullptr, JunkColumn}

\* the column a slot holds; junk stands for what an unwritten stray slot holds
SlotColumn(block, st, p, junk) ==
    IF InBounds(block, p) THEN getByPosition(block, p).column
    ELSE IF p \in DOMAIN st THEN st[p] ELSE junk

StoreBlock(block, p, c) == IF InBounds(block, p) THEN setColumn(block, p, c) ELSE block
StoreStray(block, st, p, c) ==
    IF InBounds(block, p) THEN st
    ELSE [q \in DOMAIN st \cup {p} |-> IF q = p THEN c ELSE st[q]]

\* FunctionWrapper::execute (lines 48-51): the column the bound function computes
ExecuteResult(f, block, st, n) ==
    IF f.op = "dictHas"
    THEN dictHas(SlotColumn(block, st, f.arg_positions[2], nullptr), n)
    ELSE dictGet(f.return_type,
                 SlotColumn(block, st, f.arg_positions[2], nullptr),
                 SlotColumn(block, st, f.arg_positions[3], nullptr), n)

\* what execute was called with: the function, its key column, the row count
Execution(f, block, st, n) ==
    [op |-> f.op,
     attr |-> IF f.op = "dictHas" THEN ""
              ELSE At(SlotColumn(block, st, f.arg_positions[2], nullptr).data, 1, ""),
     keys |-> SlotColumn(block, st, f.arg_positions[Len(f.arg_positions)], nullptr).data,
     rows |-> n]

----------------------------------------------------------------------------
(* DictionaryReader::readKeys, lines 139-145: the position map *)

PositionsZeroFill(old, size) == [i \in 1..Len(old) |-> 0]

\* lines 140-141: positions.clear(); positions.resize(size, 0)
PositionsResize(old, size) == [i \in 1..size |-> 0]

SetAt(s, i, v) == IF i \in 1..Len(s) THEN [s EXCEPT ![i] = v] ELSE s

\* lines 142-145; i and pos are the loop's variables (i is 0-based)
RECURSIVE ScanFound(_, _, _, _, _)
ScanFound(ps, fnd, i, pos, size) ==
    IF i >= size THEN ps
    ELSE IF At(fnd, i + 1, 0) # 0
         THEN ScanFound(SetAt(ps, i + 1, pos), fnd, i + 1, pos + 1, size)
         ELSE ScanFound(ps, fnd, i + 1, pos, size)

RECURSIVE ScanFoundPreIncrement(_, _, _, _, _)
ScanFoundPreIncrement(ps, fnd, i, pos, size) ==
    IF i >= size THEN ps
    ELSE IF At(fnd, i + 1, 0) # 0
         THEN ScanFoundPreIncrement(SetAt(ps, i + 1, pos + 1), fnd, i + 1, pos + 1, size)
         ELSE ScanFoundPreIncrement(ps, fnd, i + 1, pos, size)

MapPositionsPreIncrement(old, fnd, size) ==
    ScanFoundPreIncrement(PositionsResize(old, size), fnd, 0, 0, size)

MapPositions(old, fnd, size) == ScanFound(PositionsResize(old, size), fnd, 0, 0, size)

----------------------------------------------------------------------------
(* DictionaryReader::readKeys *)

\* found and positions as a caller may pass them in
PriorVectors ==
    { [found |-> <<>>, positions |-> <<>>],
      [found |-> <<1, 1, 0, 1, 1, 1>>, positions |-> <<7, 7, 7, 7, 7, 7>>] }

ProcessCrashed == \E t \in Threads : pc[t] = "crashed"
CanRun(t) == t <= nthreads /\ ctor_pc = "built" /\ ~ProcessCrashed

has_position == key_position + 1
first_get_position == has_position + 1

\* lines 122-130: copy the sample block, install the keys
CallBegin(t) ==
    /\ CanRun(t)
    /\ pc[t] = "idle"
    /\ \E keys \in SeqsUpTo(KeyVals, MaxRowsNow), prior \in PriorVectors :
        /\ call_keys' = [call_keys EXCEPT ![t] = keys]
        /\ call_size' = [call_size EXCEPT ![t] = Len(keys)]
        /\ call_prior' = [call_prior EXCEPT ![t] = prior]
        /\ found' = [found EXCEPT ![t] = prior.found]
        /\ positions' = [positions EXCEPT ![t] = prior.positions]
        /\ working_block' = [working_block EXCEPT ![t] =
               StoreBlock(sample_block, key_position, cloneResized(keys, Len(keys)))]
    /\ pc' = [pc EXCEPT ![t] = "has"]
    /\ UNCHANGED <<dict, nthreads, ctor_vars, stray, out_block, rows, get_index, call_log>>

\* line 133: function_has->execute(working_block, size)
ExecHas(t) ==
    /\ CanRun(t)
    /\ pc[t] = "has"
    /\ LET f == function_has[1]
           c == ExecuteResult(f, working_block[t], stray[t], call_size[t])
       IN /\ call_log' = [call_log EXCEPT ![t] =
                  Append(@, Execution(f, working_block[t], stray[t], call_size[t]))]
          /\ working_block' = [working_block EXCEPT ![t] = StoreBlock(@, f.result_pos, c)]
          /\ stray' = [stray EXCEPT ![t] = StoreStray(working_block[t], @, f.result_pos, c)]
    /\ pc' = [pc EXCEPT ![t] = "extract"]
    /\ UNCHANGED <<dict, nthreads, ctor_vars, call_keys, call_size, call_prior, found,
                   positions, out_block, rows, get_index>>

\* lines 134-137: move the dictHas() result into found, clear its slot.
\* mutate() of a null column or the cast of a column that is no ColumnVector<UInt8>
\* does not return.
ExtractFound(t) ==
    /\ CanRun(t)
    /\ pc[t] = "extract"
    /\ \E junk \in Garbage :
        LET c == SlotColumn(working_block[t], stray[t], has_position, junk) IN
        IF c.isnull \/ c.of # "UInt8"
        THEN /\ pc' = [pc EXCEPT ![t] = "crashed"]
             /\ UNCHANGED <<found, working_block, stray>>
        ELSE /\ found' = [found EXCEPT ![t] = c.data]
             /\ working_block' = [working_block EXCEPT ![t] = StoreBlock(@, has_position, nullptr)]
             /\ stray' = [stray EXCEPT ![t] = StoreStray(working_block[t], @, has_position, nullptr)]
             /\ pc' = [pc EXCEPT ![t] = "map"]
    /\ UNCHANGED <<dict, nthreads, ctor_vars, call_keys, call_size, call_prior, positions,
                   out_block, rows, get_index, call_log>>

\* lines 139-145
BuildPositions(t) ==
    /\ CanRun(t)
    /\ pc[t] = "map"
    /\ positions' = [positions EXCEPT ![t] = MapPositions(@, found[t], call_size[t])]
    /\ pc' = [pc EXCEPT ![t] = "filter"]
    /\ UNCHANGED <<dict, nthreads, ctor_vars, call_keys, call_size, call_prior, working_block,
                   stray, found, out_block, rows, get_index, call_log>>

\* lines 147-149: keep the found keys only
FilterKeys(t) ==
    /\ CanRun(t)
    /\ pc[t] = "filter"
    /\ LET filtered == filter(SlotColumn(working_block[t], stray[t], key_position, nullptr), found[t])
       IN /\ working_block' = [working_block EXCEPT ![t] = StoreBlock(@, key_position, filtered)]
          /\ rows' = [rows EXCEPT ![t] = Len(filtered.data)]
    /\ get_index' = [get_index EXCEPT ![t] = 0]
    /\ pc' = [pc EXCEPT ![t] = "get"]
    /\ UNCHANGED <<dict, nthreads, ctor_vars, call_keys, call_size, call_prior, stray, found,
                   positions, out_block, call_log>>

\* lines 151-153, one iteration: func.execute(working_block, rows)
ExecGet(t) ==
    /\ CanRun(t)
    /\ pc[t] = "get"
    /\ get_index[t] < Len(functions_get)
    /\ LET f == functions_get[get_index[t] + 1]
           c == ExecuteResult(f, working_block[t], stray[t], rows[t])
       IN /\ call_log' = [call_log EXCEPT ![t] =
                  Append(@, Execution(f, working_block[t], stray[t], rows[t]))]
          /\ working_block' = [working_block EXCEPT ![t] = StoreBlock(@, f.result_pos, c)]
          /\ stray' = [stray EXCEPT ![t] = StoreStray(working_block[t], @, f.result_pos, c)]
    /\ get_index' = [get_index EXCEPT ![t] = @ + 1]
    /\ UNCHANGED <<dict, nthreads, ctor_vars, pc, call_keys, call_size, call_prior, found,
                   positions, out_block, rows>>

\* lines 155-164: the header's names and types, the data columns moved out of the
\* working block's slots first_get_position + i
MakeResult(t) ==
    /\ CanRun(t)
    /\ pc[t] = "get"
    /\ get_index[t] = Len(functions_get)
    /\ \E junk \in [1..columns(result_header) -> Garbage] :
        out_block' = [out_block EXCEPT ![t] =
            [i \in 1..columns(result_header) |->
                [cloneEmpty(result_header)[i] EXCEPT !.column =
                    SlotColumn(working_block[t], stray[t], first_get_position + (i - 1), junk[i])]]]
    /\ pc' = [pc EXCEPT ![t] = "done"]
    /\ UNCHANGED <<dict, nthreads, ctor_vars, call_keys, call_size, call_prior, working_block,
                   stray, found, positions, rows, get_index, call_log>>

\* the block positions the thread's next step touches
StepPositions(t) ==
    CASE pc[t] = "has" -> {function_has[1].result_pos}
      [] pc[t] = "extract" -> {has_position}
      [] pc[t] = "filter" -> {key_position}
      [] pc[t] = "get" /\ get_index[t] < Len(functions_get) ->
             {functions_get[get_index[t] + 1].result_pos}
      [] pc[t] = "get" /\ get_index[t] = Len(functions_get) ->
             {first_get_position + i : i \in 0..(columns(result_header) - 1)}
      [] OTHER -> {}

\* an access outside the working block's vector ends the process
Crash(t) ==
    /\ CanRun(t)
    /\ \E p \in StepPositions(t) : ~InBounds(working_block[t], p)
    /\ pc' = [pc EXCEPT ![t] = "crashed"]
    /\ UNCHANGED <<dict, nthreads, ctor_vars, call_keys, call_size, call_prior, working_block,
                   stray, found, positions, out_block, rows, get_index, call_log>>

\* readKeys returned; the working block is gone, the caller drops the results
CallReturn(t) ==
    /\ CanRun(t)
    /\ pc[t] = "done"
    /\ pc' = [pc EXCEPT ![t] = "idle"]
    /\ call_keys' = [call_keys EXCEPT ![t] = <<>>]
    /\ call_size' = [call_size EXCEPT ![t] = 0]
    /\ call_prior' = [call_prior EXCEPT ![t] = [found |-> <<>>, positions |-> <<>>]]
    /\ working_block' = [working_block EXCEPT ![t] = <<>>]
    /\ stray' = [stray EXCEPT ![t] = <<>>]
    /\ found' = [found EXCEPT ![t] = <<>>]
    /\ positions' = [positions EXCEPT ![t] = <<>>]
    /\ out_block' = [out_block EXCEPT ![t] = <<>>]
    /\ rows' = [rows EXCEPT ![t] = 0]
    /\ get_index' = [get_index EXCEPT ![t] = 0]
    /\ call_log' = [call_log EXCEPT ![t] = <<>>]
    /\ UNCHANGED <<dict, nthreads, ctor_vars>>

----------------------------------------------------------------------------
(* Specifications *)

InitWith(n) ==
    /\ dict \in SUBSET KeyVals
    /\ resolver_types = <<>>
    /\ nthreads = n
    /\ ctor_pc = "start"
    /\ src_column_names = <<>>
    /\ result_columns = <<>>
    /\ result_header = <<>>
    /\ sample_block = <<>>
    /\ key_position = 0
    /\ function_has = <<>>
    /\ functions_get = <<>>
    /\ ctor_error = NoError
    /\ resolvers = <<>>
    /\ resolve_log = <<>>
    /\ pc = [t \in Threads |-> "idle"]
    /\ call_keys = [t \in Threads |-> <<>>]
    /\ call_size = [t \in Threads |-> 0]
    /\ call_prior = [t \in Threads |-> [found |-> <<>>, positions |-> <<>>]]
    /\ working_block = [t \in Threads |-> <<>>]
    /\ stray = [t \in Threads |-> <<>>]
    /\ found = [t \in Threads |-> <<>>]
    /\ positions = [t \in Threads |-> <<>>]
    /\ out_block = [t \in Threads |-> <<>>]
    /\ rows = [t \in Threads |-> 0]
    /\ get_index = [t \in Threads |-> 0]
    /\ call_log = [t \in Threads |-> <<>>]

Init == InitWith(1)
InitConc == InitWith(2)

Next ==
    \/ CtorBegin
    \/ CtorHas
    \/ CtorGet
    \/ CtorEnd
    \/ \E t \in Threads : CallBegin(t)
    \/ \E t \in Threads : ExecHas(t)
    \/ \E t \in Threads : ExtractFound(t)
    \/ \E t \in Threads : BuildPositions(t)
    \/ \E t \in Threads : FilterKeys(t)
    \/ \E t \in Threads : ExecGet(t)
    \/ \E t \in Threads : MakeResult(t)
    \/ \E t \in Threads : Crash(t)
    \/ \E t \in Threads : CallReturn(t)

\* one thread calls readKeys
Spec == Init /\ [][Next]_vars
\* two threads call readKeys on the same reader
SpecConc == InitConc /\ [][Next]_vars

----------------------------------------------------------------------------
(* Properties *)

Returned(t) == ctor_pc = "built" /\ pc[t] = "done"
CallEnded(t) == ctor_pc = "built" /\ pc[t] \in {"done", "crashed"}
IsFound(t, i) == At(found[t], i, 0) # 0
CountFound(t) == Cardinality({i \in 1..Len(found[t]) : found[t][i] # 0})
FoundBefore(t, i) == Cardinality({j \in 1..(i - 1) : IsFound(t, j)})
\* rows of a column as Block::rows() counts them
RowCount(column) == IF column.isnull THEN 0 ELSE Len(column.data)
WithoutNullable(type) == IF isNullable(type) THEN getNestedType(type) ELSE type

\* C1: when readKeys has returned from a reader with at least one result column,
\* then for every found row i and every attribute a, row positions[i] of output
\* column a is the dictionary's value of sourceColumnNames[a] for keys[i].
C1_OutputHoldsValues ==
    \A t \in Threads :
        (Returned(t) /\ Len(result_columns) >= 1) =>
            \A i \in 1..call_size[t] : IsFound(t, i) =>
                \A a \in 1..Len(result_columns) :
                    /\ a <= Len(out_block[t])
                    /\ ~out_block[t][a].column.isnull
                    /\ i <= Len(positions[t])
                    /\ positions[t][i] + 1 <= Len(out_block[t][a].column.data)
                    /\ out_block[t][a].column.data[positions[t][i] + 1]
                           = DictValue(src_column_names[a], call_keys[t][i])

\* C2: after readKeys the found mask and the position map both have exactly N
\* entries, whatever the caller's vectors held before the call.
C2_LengthsAreN ==
    \A t \in Threads :
        Returned(t) => /\ Len(found[t]) = call_size[t]
                       /\ Len(positions[t]) = call_size[t]

C2_Witness ==
    \E t \in Threads :
        /\ Returned(t)
        /\ call_size[t] = 2
        /\ Len(call_prior[t].found) = 6
        /\ Len(call_prior[t].positions) = 6

\* C3: after readKeys every column of the output block has exactly countFound rows,
\* the number of true entries of the found mask.
C3_OutputRowCount ==
    \A t \in Threads :
        Returned(t) =>
            \A a \in 1..Len(out_block[t]) : RowCount(out_block[t][a].column) = CountFound(t)

\* C4: the position map is a stable compaction: a found row's position is the
\* number of found rows before it, so the found rows map one-to-one and in order
\* onto 0..countFound-1; a row that is not found has position 0.
C4_StableCompaction ==
    \A t \in Threads :
        Returned(t) =>
            /\ \A i \in 1..call_size[t] :
                   positions[t][i] = IF IsFound(t, i) THEN FoundBefore(t, i) ELSE 0
            /\ {positions[t][i] : i \in {j \in 1..call_size[t] : IsFound(t, j)}}
                   = 0..(CountFound(t) - 1)
            /\ \A i, j \in 1..call_size[t] :
                   (i < j /\ IsFound(t, i) /\ IsFound(t, j)) => positions[t][i] < positions[t][j]

C4_Witness ==
    \E t \in Threads :
        /\ Returned(t)
        /\ found[t] = <<1, 0, 1>>
        /\ positions[t] = <<0, 0, 1>>
        /\ call_prior[t].positions = <<7, 7, 7, 7, 7, 7>>

\* C5 as stated: the output block has one column per requested result, in the
\* requested order, each with the requested name and the requested type.
C5_HeaderAsRequested ==
    \A t \in Threads :
        Returned(t) =>
            /\ columns(out_block[t]) = Len(result_columns)
            /\ \A i \in 1..Len(result_columns) :
                   /\ out_block[t][i].name = result_columns[i].name
                   /\ out_block[t][i].type = result_columns[i].type

\* C5 (amended): the output block has one column per requested result, in the
\* requested order, each with the requested name and with the requested type
\* without its Nullable wrapper.
C5_HeaderWithoutNullable ==
    \A t \in Threads :
        Returned(t) =>
            /\ columns(out_block[t]) = Len(result_columns)
            /\ \A i \in 1..Len(result_columns) :
                   /\ out_block[t][i].name = result_columns[i].name
                   /\ out_block[t][i].type = WithoutNullable(result_columns[i].type)

C5_Witness ==
    \E t \in Threads :
        /\ Returned(t)
        /\ Len(result_columns) = 2
        /\ result_columns[1].name # result_columns[2].name
        /\ isNullable(result_columns[2].type)
        /\ ~isNullable(out_block[t][2].type)

CtorEnded == ctor_pc \in {"built", "failed"}
NoPlan ==
    /\ ctor_pc = "failed"
    /\ result_header = <<>> /\ sample_block = <<>>
    /\ function_has = <<>> /\ functions_get = <<>>

\* C6: with lists of different lengths the constructor fails with
\* NUMBER_OF_COLUMNS_DOESNT_MATCH before any function is looked up or resolved and
\* leaves no reader, whatever the types are; with lists of equal length it never
\* raises that error.
C6_ColumnCountMismatch ==
    ctor_pc # "start" =>
        IF Len(src_column_names) # Len(result_columns)
        THEN /\ NoPlan
             /\ ctor_error.code = "NUMBER_OF_COLUMNS_DOESNT_MATCH"
             /\ resolvers = <<>>
             /\ resolve_log = <<>>
        ELSE ctor_error.code # "NUMBER_OF_COLUMNS_DOESNT_MATCH"

\* the two requested types differ in their type index, so no single dictGet
\* return type passes both checks
C6_Witness ==
    /\ ctor_pc = "failed"
    /\ ctor_error.code = "NUMBER_OF_COLUMNS_DOESNT_MATCH"
    /\ Len(src_column_names) = 1
    /\ Len(result_columns) = 2
    /\ result_columns[1].type.id # result_columns[2].type.id

\* the k-th resolver.build of the constructor is for "has" (k = 1) or for result
\* column k - 1; what its return type is checked against
ExpectedType(k) == IF k = 1 THEN DataTypeUInt8 ELSE WithoutNullable(result_columns[k - 1].type)
CheckedName(k) == IF k = 1 THEN "has" ELSE result_columns[k - 1].name
SameTypeIndex(k) == getTypeId(resolve_log[k].type) = getTypeId(ExpectedType(k))
SameType(k) == resolve_log[k].type = ExpectedType(k)

\* C7 as stated: with lists of equal length, the constructor fails with
\* TYPE_MISMATCH exactly when the resolved type of has is not UInt8 or the resolved
\* type of some get differs from the requested type (without Nullable); has is
\* checked first, the gets in result order, and the first one that differs is named.
C7_FailsIffTypesDiffer ==
    (CtorEnded /\ Len(src_column_names) = Len(result_columns)) =>
        LET k == Len(resolve_log) IN
        /\ k >= 1
        /\ \A j \in 1..(k - 1) : SameType(j)
        /\ IF ctor_pc = "built"
           THEN /\ k = 1 + Len(result_columns)
                /\ SameType(k)
                /\ ctor_error = NoError
           ELSE /\ ~SameType(k)
                /\ ctor_error = [code |-> "TYPE_MISMATCH", name |-> CheckedName(k)]

\* C7 (amended): the same, with types compared by their type index (TypeIndex),
\* which does not tell apart two types that differ only in their parameters.
C7_FailsIffTypeIndexDiffers ==
    (CtorEnded /\ Len(src_column_names) = Len(result_columns)) =>
        LET k == Len(resolve_log) IN
        /\ k >= 1
        /\ \A j \in 1..(k - 1) : SameTypeIndex(j)
        /\ IF ctor_pc = "built"
           THEN /\ k = 1 + Len(result_columns)
                /\ SameTypeIndex(k)
                /\ ctor_error = NoError
           ELSE /\ ~SameTypeIndex(k)
                /\ ctor_error = [code |-> "TYPE_MISMATCH", name |-> CheckedName(k)]

\* the second get is the first function whose type differs
C7_Witness ==
    /\ ctor_pc = "failed"
    /\ Len(result_columns) = 2
    /\ Len(resolve_log) = 3
    /\ isNullable(result_columns[1].type)
    /\ ctor_error = [code |-> "TYPE_MISMATCH", name |-> result_columns[2].name]

\* C8: two readKeys calls on the same reader with the same keys return the same
\* output block, found mask and position map, however their steps interleave.
C8_SameKeysSameResults ==
    \A t1, t2 \in Threads :
        (Returned(t1) /\ Returned(t2) /\ call_keys[t1] = call_keys[t2]) =>
            /\ found[t1] = found[t2]
            /\ positions[t1] = positions[t2]
            /\ Len(out_block[t1]) = Len(out_block[t2])
            /\ \A a \in 1..Len(out_block[t1]) :
                   /\ out_block[t1][a].column.isnull = out_block[t2][a].column.isnull
                   /\ out_block[t1][a].column.of = out_block[t2][a].column.of
                   /\ out_block[t1][a].column.data = out_block[t2][a].column.data

FoundKeys(t) == filterData(call_keys[t], found[t])
ExpectedLog(t) ==
    << [op |-> "dictHas", attr |-> "", keys |-> call_keys[t], rows |-> call_size[t]] >> \o
    [a \in 1..Len(result_columns) |->
        [op |-> "dictGet", attr |-> src_column_names[a], keys |-> FoundKeys(t),
         rows |-> CountFound(t)]]

\* C9: every readKeys call completes without error, having executed has once on
\* all N keys and then each get once, in result order, on countFound rows whose
\* keys are the found keys in input order (zero rows when nothing is found).
C9_HasThenGetsOnFoundKeys ==
    \A t \in Threads :
        CallEnded(t) => /\ pc[t] = "done"
                        /\ call_log[t] = ExpectedLog(t)

\* C10: the sample block of a reader over n result columns has 2n + 3 columns:
\* dictionary name, n source column names, key, has result, n get results; every
\* bound position lies inside it, the result positions are pairwise distinct and
\* are no function's argument position, has writes to key_position + 1 and the
\* i-th get to key_position + 2 + i.
C10_SampleBlockLayout ==
    ctor_pc = "built" =>
        LET n == Len(result_columns)
            fs == function_has \o functions_get
        IN /\ columns(sample_block) = 2 * n + 3
           /\ key_position = n + 1
           /\ \A k \in 1..Len(fs) :
                  /\ InBounds(sample_block, fs[k].result_pos)
                  /\ \A q \in 1..Len(fs[k].arg_positions) :
                         InBounds(sample_block, fs[k].arg_positions[q])
                  /\ \A m \in 1..Len(fs) :
                         /\ m # k => fs[m].result_pos # fs[k].result_pos
                         /\ \A q \in 1..Len(fs[m].arg_positions) :
                                fs[m].arg_positions[q] # fs[k].result_pos
           /\ function_has[1].result_pos = key_position + 1
           /\ \A i \in 1..n : functions_get[i].result_pos = key_position + 2 + (i - 1)

====
